---------------------------- MODULE Spec2Model ----------------------------
(***************************************************************************)
(* A model of neo/io/xpdio.py: the reader of .xpd trial files.             *)
(*                                                                         *)
(* The file is modelled byte by byte with the sizes of the source (a 2     *)
(* byte announce code, the 542 byte trial header, 4 byte channel counts,   *)
(* 24 byte channel headers, 2 or 4 byte samples).  XpdIO._open is modelled *)
(* one read at a time, _get_channels and read_block as whole calls under   *)
(* Spec (one caller), and _get_channels one seek or read at a time for two *)
(* callers under SpecRace.                                                 *)
(*                                                                         *)
(* Abstractions: the source is Python 2; integers are packed little-endian *)
(* (the native order of the Struct formats on the usual hosts); a double   *)
(* is represented by a natural number packed into its 8 bytes, so that 0.0 *)
(* is the all-zero pattern as in IEEE-754; the name handling of read_block *)
(* (lines 318-330) and the wrapping into neo objects are left out.         *)
(***************************************************************************)
EXTENDS Integers, Sequences, FiniteSets, TLC

VARIABLES
    layout,        \* what was written to the file (kept for the record, never read)
    file,          \* the bytes of the file on disk (never written)
    _file,         \* self._file: "None", "open" or "closed"
    pos,           \* the cursor of the file handle
    pc,            \* the position of the constructor / the session
    sec,           \* the section _open is working on: "t", "a", "d", "e"
    n_left,        \* iterations left of the current xrange(n_ch_*) loop
    _header,       \* self._header
    _ch_analog,    \* self._ch_analog
    _ch_digital,   \* self._ch_digital
    _ch_event,     \* self._ch_event
    exc,           \* the exception the constructor raised, or "none"
    exposed,       \* the constructor returned the session to its caller
    iolog,         \* the reads and seeks of _open, in order
    call,          \* the last call made on the session
    outcome,       \* how that call ended
    rval,          \* the matrix returned by _get_channels
    blk,           \* the tetrode signals made by read_block
    warns,         \* the warnings.warn calls of the last call
    ioops,         \* the seeks and reads of the last call
    threads,       \* the calls of _get_channels that run at the same time, each with its locals
    cursor_by      \* the thread whose seek or read moved the cursor last, 0 if none did

vars == <<layout, file, _file, pos, pc, sec, n_left, _header, _ch_analog, _ch_digital,
          _ch_event, exc, exposed, iolog, call, outcome, rval, blk, warns, ioops,
          threads, cursor_by>>

-----------------------------------------------------------------------------
(* Bounds of the model *)

MaxChan == 2       \* channels per enumerated section
MaxSample == 2     \* n_sample of an enumerated channel
MaxReq == 2        \* length of an enumerated request

-----------------------------------------------------------------------------
(* Sequences *)

Min(a, b) == IF a < b THEN a ELSE b
Max(a, b) == IF a > b THEN a ELSE b
Zeros(n) == [i \in 1..n |-> 0]
SeqsUpTo(S, n) == UNION {[1..k -> S] : k \in 0..n}

RECURSIVE Flatten(_)
Flatten(ss) == IF ss = <<>> THEN <<>> ELSE Head(ss) \o Flatten(Tail(ss))

-----------------------------------------------------------------------------
(* struct.Struct: pack and unpack of the native formats *)

\* Struct(fmt).pack for an unsigned integer format of k bytes
RECURSIVE Pack(_, _)
Pack(v, k) == IF k = 0 THEN <<>> ELSE <<v % 256>> \o Pack(v \div 256, k - 1)

RECURSIVE UnpackLE(_)
UnpackLE(buf) == IF buf = <<>> THEN 0 ELSE Head(buf) + 256 * UnpackLE(Tail(buf))

\* Struct.unpack raises struct.error unless the buffer has the size of the format
StructError(buf, size) == Len(buf) # size

_CONV_I(buf) == UnpackLE(buf)
_CONV_H(buf) == UnpackLE(buf)
_CONV_B(buf) == UnpackLE(buf)
_CONV_d(buf) == UnpackLE(buf)
_CONV_s(buf) == buf
_CONV_7s(buf) == buf
_CONV_255s(buf) == buf

\* a signed sample of w bytes (two's complement), as written and as sp.fromfile reads it
Invert(buf) == [i \in 1..Len(buf) |-> 255 - buf[i]]
PackSigned(v, w) == IF v < 0 THEN Invert(Pack(-v - 1, w)) ELSE Pack(v, w)
UnpackSigned(buf) == IF buf[Len(buf)] >= 128 THEN -UnpackLE(Invert(buf)) - 1 ELSE UnpackLE(buf)

-----------------------------------------------------------------------------
(* The file handle: read, seek, tell work on (file, pos) *)

\* file.read(n): the bytes from the cursor, at most n, fewer at the end of the file
FileRead(f, p, n) == IF p >= Len(f) THEN <<>> ELSE SubSeq(f, p + 1, Min(p + n, Len(f)))

\* buf[a:b] of Python
Slice(buf, a, b) == SubSeq(buf, a + 1, Min(b, Len(buf)))

\* str.find('\x00'): the index of the first NUL byte, -1 if there is none
Find0(s) ==
    IF \E i \in 1..Len(s) : s[i] = 0
    THEN (CHOOSE i \in 1..Len(s) : s[i] = 0 /\ \A j \in 1..(i - 1) : s[j] # 0) - 1
    ELSE -1

\* s[:k] of Python, k may be negative
Upto(s, k) == IF k >= 0 THEN SubSeq(s, 1, Min(k, Len(s))) ELSE SubSeq(s, 1, Max(Len(s) + k, 0))

-----------------------------------------------------------------------------
(* _XPD_TRIAL_HEADER *)

TRIAL_SIZE == 542

\* the slices of the buffer that __init__ unpacks, with the size of their format
TrialSlices == << <<0, 2>>, <<2, 6>>, <<6, 13>>, <<13, 14>>, <<14, 16>>, <<16, 17>>,
                  <<17, 18>>, <<18, 22>>, <<22, 23>>, <<23, 24>>, <<24, 26>>, <<26, 28>>,
                  <<28, 30>>, <<30, 32>>, <<32, 287>>, <<287, 542>> >>

TrialHeaderError(buf) ==
    \E i \in 1..Len(TrialSlices) :
        StructError(Slice(buf, TrialSlices[i][1], TrialSlices[i][2]),
                    TrialSlices[i][2] - TrialSlices[i][1])

_XPD_TRIAL_HEADER(buf) ==
    LET comment == _CONV_255s(Slice(buf, 32, 287))
        add_comment == _CONV_255s(Slice(buf, 287, 542))
    IN  [header_size |-> _CONV_H(Slice(buf, 0, 2)),
         data_size   |-> _CONV_I(Slice(buf, 2, 6)),
         name        |-> _CONV_7s(Slice(buf, 6, 13)),
         version     |-> _CONV_s(Slice(buf, 13, 14)),
         sw_build_no |-> _CONV_H(Slice(buf, 14, 16)),
         high_ver    |-> _CONV_B(Slice(buf, 16, 17)),
         low_ver     |-> _CONV_B(Slice(buf, 17, 18)),
         trial_no    |-> _CONV_I(Slice(buf, 18, 22)),
         stm_code    |-> _CONV_B(Slice(buf, 22, 23)),
         err_code    |-> _CONV_B(Slice(buf, 23, 24)),
         timestamp   |-> <<_CONV_H(Slice(buf, 24, 26)), _CONV_H(Slice(buf, 26, 28)),
                           _CONV_H(Slice(buf, 28, 30)), _CONV_H(Slice(buf, 30, 32))>>,
         comment     |-> Upto(comment, Find0(comment)),
         add_comment |-> Upto(add_comment, Find0(add_comment))]

-----------------------------------------------------------------------------
(* _XPD_CHANNEL_HEADER *)

CHANNEL_SIZE == 24

ChannelSlices == << <<0, 4>>, <<4, 12>>, <<12, 20>>, <<20, 24>> >>

ChannelHeaderError(buf) ==
    \E i \in 1..Len(ChannelSlices) :
        StructError(Slice(buf, ChannelSlices[i][1], ChannelSlices[i][2]),
                    ChannelSlices[i][2] - ChannelSlices[i][1])

\* a header that takes the cursor before its 24 bytes for its data_offset
_XPD_CHANNEL_HEADER_before(buf, tell) ==
    [channel_no  |-> _CONV_I(Slice(buf, 0, 4)),
     sample_rate |-> _CONV_d(Slice(buf, 4, 12)),
     x_offset    |-> _CONV_d(Slice(buf, 12, 20)),
     n_sample    |-> _CONV_I(Slice(buf, 20, 24)),
     data_offset |-> tell - Len(buf)]

\* tell is the cursor after the read of the buffer
_XPD_CHANNEL_HEADER(buf, tell) ==
    [channel_no  |-> _CONV_I(Slice(buf, 0, 4)),
     sample_rate |-> _CONV_d(Slice(buf, 4, 12)),
     x_offset    |-> _CONV_d(Slice(buf, 12, 20)),
     n_sample    |-> _CONV_I(Slice(buf, 20, 24)),
     data_offset |-> tell]

-----------------------------------------------------------------------------
(* The files the model opens: built as the format lays them out, then      *)
(* damaged by a wrong announce code or by a cut.                           *)

\* the announce codes a writer of the format puts in front of the sections
ANNOUNCE_TRIAL == 120
ANNOUNCE_ANALOG == 123
ANNOUNCE_DIGITAL == 121
ANNOUNCE_EVENT == 122

Sections == <<"t", "a", "d", "e">>
Kinds == {"a", "d", "e"}

\* the codes of the digital and the event section taken for each other
Announce_swapped(s) ==
    CASE s = "t" -> 120
      [] s = "a" -> 123
      [] s = "d" -> 122
      [] s = "e" -> 121

\* the announce code _open compares with in front of a section
Announce(s) ==
    CASE s = "t" -> 120
      [] s = "a" -> 123
      [] s = "d" -> 121
      [] s = "e" -> 122

\* bytes per sample: sp.int16 for analog, sp.int32 for digital and event
ItemSize(kind) == IF kind = "a" THEN 2 ELSE 4

\* the r-th sample stored for the i-th channel of a section: never zero, both signs
StoredSample(kind, i, r) ==
    LET v == ItemSize(kind) * 100 + 10 * i + r
    IN  IF r % 2 = 0 THEN -v ELSE v

TrialBytes(t) ==
    Pack(t.header_size, 2) \o Pack(0, 4) \o Zeros(7) \o <<86>> \o Pack(0, 2)
      \o <<0>> \o <<12>> \o Pack(t.trial_no, 4) \o <<0>> \o <<0>> \o Zeros(8)
      \o t.comment \o t.add_comment

\* the i-th channel of a section: its 24 byte header, then c.stored samples
ChannelItems(kind, c, i) ==
    << Pack(c.no, 4) \o Pack(c.rate, 8) \o Pack(0, 8) \o Pack(c.n, 4),
       Flatten([r \in 1..c.n |-> PackSigned(StoredSample(kind, i, r), ItemSize(kind))]) >>

SectionItems(kind, ann, cs) ==
    <<Pack(ann, 2), Pack(Len(cs), 4)>> \o Flatten([i \in 1..Len(cs) |-> ChannelItems(kind, cs[i], i)])

\* the items of an intact file, in file order
FileItems(l) ==
    <<Pack(l.ann["t"], 2), TrialBytes(l.trial)>>
      \o SectionItems("a", l.ann["a"], l.a)
      \o SectionItems("d", l.ann["d"], l.d)
      \o SectionItems("e", l.ann["e"], l.e)

\* the bytes of a sequence of items
RECURSIVE SumLen(_)
SumLen(items) == IF items = <<>> THEN 0 ELSE Len(Head(items)) + SumLen(Tail(items))

RECURSIVE Starts(_, _)
Starts(items, at) ==
    IF items = <<>> THEN {} ELSE {at} \cup Starts(Tail(items), at + Len(Head(items)))

FileBytes(l) == LET f == Flatten(FileItems(l)) IN SubSeq(f, 1, Min(l.keep, Len(f)))

\* a comment field of 255 bytes: empty, a text with its NUL, a text that fills the field
CommentFields == {Zeros(255), <<97, 98>> \o Zeros(253), [i \in 1..255 |-> 65]}

PlainTrial == [header_size |-> 10, trial_no |-> 7, comment |-> Zeros(255), add_comment |-> Zeros(255)]
Trials == {[PlainTrial EXCEPT !.comment = c, !.add_comment = a] : c, a \in CommentFields}

GoodAnnounce == [t |-> ANNOUNCE_TRIAL, a |-> ANNOUNCE_ANALOG, d |-> ANNOUNCE_DIGITAL, e |-> ANNOUNCE_EVENT]
AnnounceCodes == {ANNOUNCE_TRIAL, ANNOUNCE_ANALOG, ANNOUNCE_DIGITAL, ANNOUNCE_EVENT}

ChanNos == {1, 17}
TetrodeNos == {0, 1, 16, 17}
DefaultRate == 32

\* the channels of an enumerated analog section: full length, or one sample at rate 0.0
Shapes == {[rate |-> 30, n |-> MaxSample], [rate |-> 0, n |-> 1]}
AnalogChans == {[no |-> c, rate |-> s.rate, n |-> s.n] : c \in ChanNos, s \in Shapes}
\* the channels of an enumerated digital or event section
OtherChans == {[no |-> 1, rate |-> 30, n |-> MaxSample], [no |-> 17, rate |-> 30, n |-> 1]}
\* channels around the range 1..16 of the tetrode numbers, with one sample or none
TetrodeChans == [no : TetrodeNos, rate : {25}, n : {0, 1}]

\* an intact file: size is its length, starts the offset of each of its items,
\* and keep says how many bytes of it are on disk, here all
Layout(t, a, d, e) ==
    LET l == [ann |-> GoodAnnounce, trial |-> t, a |-> a, d |-> d, e |-> e, keep |-> 0, size |-> 0, starts |-> <<>>]
        items == FileItems(l)
    IN  [l EXCEPT !.keep = SumLen(items),
                  !.size = SumLen(items),
                  !.starts = [i \in 1..Len(items) |-> SumLen(SubSeq(items, 1, i - 1))]]

IntactLayouts ==
    {Layout(PlainTrial, a, <<>>, <<>>) : a \in SeqsUpTo(AnalogChans, MaxChan) \cup SeqsUpTo(TetrodeChans, 2)}
      \cup {Layout(PlainTrial, <<>>, d, <<>>) : d \in SeqsUpTo(OtherChans, MaxChan)}
      \cup {Layout(PlainTrial, <<>>, <<>>, e) : e \in SeqsUpTo(OtherChans, MaxChan)}
      \cup {Layout(t, <<>>, <<>>, <<>>) : t \in Trials}

\* one channel or none in each section
MixedLayouts ==
    {Layout(PlainTrial, a, d, e) :
        a \in SeqsUpTo({[no |-> 1, rate |-> 30, n |-> 2]}, 1),
        d \in SeqsUpTo({[no |-> 1, rate |-> 30, n |-> 1]}, 1),
        e \in SeqsUpTo({[no |-> 17, rate |-> 30, n |-> 2]}, 1)}

WrongAnnounce(l) ==
    {[l EXCEPT !.ann[s] = v] : s \in {"t", "a", "d", "e"}, v \in AnnounceCodes} \ {l}

\* cuts at the start of an item, one byte into it, and one sample before the end
Cuts(l) ==
    LET items == FileItems(l)
        size == Len(Flatten(items))
        at == Starts(items, 0)
    IN  {[l EXCEPT !.keep = k] : k \in (at \cup {k + 1 : k \in at} \cup {size - 2, size - 4}) \cap 0..(size - 1)}

\* one analog channel 1 of 5 samples at 30 kHz, its three partners missing
ScenarioLayouts == {Layout(PlainTrial, <<[no |-> 1, rate |-> 30, n |-> 5]>>, <<>>, <<>>)}

Layouts == IntactLayouts \cup ScenarioLayouts \cup MixedLayouts \cup UNION {WrongAnnounce(l) \cup Cuts(l) : l \in MixedLayouts}

ReqNos == {1, 17, 99}
Requests == SeqsUpTo(ReqNos, MaxReq)
\* the calls of _get_channels the model makes: every request of every kind, and a kind that is none
Loads == (Requests \X Kinds) \cup ({<<>>, <<1>>} \X {"x"})

-----------------------------------------------------------------------------
(* XpdIO.__init__ and _open *)

None == [none |-> TRUE]
EmptyMap == [c \in {} |-> None]
NoCall == [name |-> "none"]
NoMatrix == [rows |-> -1, cols |-> <<>>]

\* the threads that may call _get_channels at the same time
Threads == {1, 2}
\* a thread that is not in a call
Idle == [at |-> "idle"]

Init ==
    /\ layout \in Layouts
    /\ file = FileBytes(layout)
    /\ _file = "None"
    /\ pos = 0
    /\ pc = "open"
    /\ sec = "t"
    /\ n_left = 0
    /\ _header = None
    /\ _ch_analog = EmptyMap
    /\ _ch_digital = EmptyMap
    /\ _ch_event = EmptyMap
    /\ exc = "none"
    /\ exposed = FALSE
    /\ iolog = <<>>
    /\ call = NoCall
    /\ outcome = "none"
    /\ rval = NoMatrix
    /\ blk = <<>>
    /\ warns = <<>>
    /\ ioops = <<>>
    /\ threads = [t \in Threads |-> Idle]
    /\ cursor_by = 0

\* a _close that leaves the handle as it is
_close_leaky(h) == h

\* XpdIO._close: close the handle if there is one and it is not closed yet
_close(h) == IF h # "None" THEN (IF h # "closed" THEN "closed" ELSE h) ELSE h

\* the section after s, "done" after the last
NextSection(s) ==
    CASE s = "t" -> "a"
      [] s = "a" -> "d"
      [] s = "d" -> "e"
      [] s = "e" -> "done"

\* d.setdefault(k, v): a key that is there keeps its value
DictSet_keep(d, k, v) == [c \in DOMAIN d \cup {k} |-> IF c \in DOMAIN d THEN d[c] ELSE v]

\* d[k] = v of a Python dict
DictSet(d, k, v) == [c \in DOMAIN d \cup {k} |-> IF c = k THEN v ELSE d[c]]

\* a read of _open: where, how many bytes came, and the number they hold
Logged(what, buf, val) == Append(iolog, [what |-> what, sec |-> sec, at |-> pos, size |-> Len(buf), val |-> val])

calls == <<call, outcome, rval, blk, warns, ioops>>
race == <<threads, cursor_by>>
index == <<_header, _ch_analog, _ch_digital, _ch_event>>

\* self._file = open(self.filename, 'rb')
OpenFile ==
    /\ pc = "open"
    /\ _file' = "open"
    /\ pos' = 0
    /\ pc' = "announce"
    /\ UNCHANGED <<race, layout, file, sec, n_left, index, exc, exposed, iolog, calls>>

\* an exception leaves the constructor: struct.error from a short unpack
RaiseStructError ==
    /\ pc' = "raised"
    /\ exc' = "struct.error"
    /\ UNCHANGED <<_file, sec, n_left, index, exposed>>

\* if _CONV_H.unpack(self._file.read(2))[0] != <code>: self._close(); raise IOError
ReadAnnounce ==
    /\ pc = "announce"
    /\ LET buf == FileRead(file, pos, 2) IN
        /\ pos' = pos + Len(buf)
        /\ iolog' = Logged("announce", buf, UnpackLE(buf))
        /\ IF StructError(buf, 2)
           THEN RaiseStructError
           ELSE IF _CONV_H(buf) # Announce(sec)
                THEN /\ _file' = _close(_file)
                     /\ pc' = "raised"
                     /\ exc' = "IOError"
                     /\ UNCHANGED <<sec, n_left, index, exposed>>
                ELSE /\ pc' = IF sec = "t" THEN "trial_header" ELSE "count"
                     /\ UNCHANGED <<_file, sec, n_left, index, exc, exposed>>
    /\ UNCHANGED <<race, layout, file, calls>>

\* self._header = _XPD_TRIAL_HEADER(self._file)
ReadTrialHeader ==
    /\ pc = "trial_header"
    /\ LET buf == FileRead(file, pos, TRIAL_SIZE) IN
        /\ pos' = pos + Len(buf)
        /\ iolog' = Logged("trial_header", buf, 0)
        /\ IF TrialHeaderError(buf)
           THEN RaiseStructError
           ELSE /\ _header' = _XPD_TRIAL_HEADER(buf)
                /\ pc' = "announce"
                /\ sec' = NextSection(sec)
                /\ UNCHANGED <<_file, n_left, _ch_analog, _ch_digital, _ch_event, exc, exposed>>
    /\ UNCHANGED <<race, layout, file, calls>>

\* n_ch = _CONV_I.unpack(self._file.read(4))[0]; self._ch_<kind> = {}
ReadCount ==
    /\ pc = "count"
    /\ LET buf == FileRead(file, pos, 4) IN
        /\ pos' = pos + Len(buf)
        /\ iolog' = Logged("count", buf, UnpackLE(buf))
        /\ IF StructError(buf, 4)
           THEN RaiseStructError
           ELSE /\ n_left' = _CONV_I(buf)
                /\ _ch_analog' = IF sec = "a" THEN EmptyMap ELSE _ch_analog
                /\ _ch_digital' = IF sec = "d" THEN EmptyMap ELSE _ch_digital
                /\ _ch_event' = IF sec = "e" THEN EmptyMap ELSE _ch_event
                /\ IF _CONV_I(buf) > 0
                   THEN pc' = "channel_header" /\ sec' = sec
                   ELSE IF NextSection(sec) = "done"
                        THEN pc' = "rewind" /\ sec' = sec
                        ELSE pc' = "announce" /\ sec' = NextSection(sec)
                /\ UNCHANGED <<_file, _header, exc, exposed>>
    /\ UNCHANGED <<race, layout, file, calls>>

\* one turn of a for loop: ch = _XPD_CHANNEL_HEADER(self._file);
\* self._ch_<kind>[ch.channel_no] = ch; self._file.seek(ch.n_sample * size, 1)
ReadChannelHeader ==
    /\ pc = "channel_header"
    /\ LET buf == FileRead(file, pos, CHANNEL_SIZE)
           tell == pos + Len(buf)
           h == _XPD_CHANNEL_HEADER(buf, tell)
       IN
        /\ IF ChannelHeaderError(buf)
           THEN /\ pos' = tell
                /\ iolog' = Logged("channel_header", buf, UnpackLE(Slice(buf, 0, 4)))
                /\ RaiseStructError
           ELSE /\ pos' = tell + h.n_sample * ItemSize(sec)
                /\ iolog' = Logged("channel_header", buf, UnpackLE(Slice(buf, 0, 4)))
                              \o <<[what |-> "skip", sec |-> sec, at |-> tell, size |-> h.n_sample * ItemSize(sec), val |-> 0]>>
                /\ _ch_analog' = IF sec = "a" THEN DictSet(_ch_analog, h.channel_no, h) ELSE _ch_analog
                /\ _ch_digital' = IF sec = "d" THEN DictSet(_ch_digital, h.channel_no, h) ELSE _ch_digital
                /\ _ch_event' = IF sec = "e" THEN DictSet(_ch_event, h.channel_no, h) ELSE _ch_event
                /\ n_left' = n_left - 1
                /\ IF n_left > 1
                   THEN pc' = "channel_header" /\ sec' = sec
                   ELSE IF NextSection(sec) = "done"
                        THEN pc' = "rewind" /\ sec' = sec
                        ELSE pc' = "announce" /\ sec' = NextSection(sec)
                /\ UNCHANGED <<_file, _header, exc, exposed>>
    /\ UNCHANGED <<race, layout, file, calls>>

\* a _open that returns without its seek(0)
Rewind_noseek ==
    /\ pc = "rewind"
    /\ pos' = pos
    /\ iolog' = Append(iolog, [what |-> "rewind", sec |-> sec, at |-> pos, size |-> 0, val |-> 0])
    /\ pc' = "done"
    /\ exposed' = TRUE
    /\ UNCHANGED <<race, layout, file, _file, sec, n_left, index, exc, calls>>

\* self._file.seek(0), and __init__ returns
Rewind ==
    /\ pc = "rewind"
    /\ pos' = 0
    /\ iolog' = Append(iolog, [what |-> "rewind", sec |-> sec, at |-> 0, size |-> 0, val |-> 0])
    /\ pc' = "done"
    /\ exposed' = TRUE
    /\ UNCHANGED <<race, layout, file, _file, sec, n_left, index, exc, calls>>

\* XpdIO._open, one read at a time
_open == OpenFile \/ ReadAnnounce \/ ReadTrialHeader \/ ReadCount \/ ReadChannelHeader \/ Rewind

-----------------------------------------------------------------------------
(* XpdIO._get_channels *)

\* the dict that _get_channels picks for a kind
ChannelsOf(kind) ==
    CASE kind = "a" -> _ch_analog
      [] kind = "d" -> _ch_digital
      [] kind = "e" -> _ch_event

Warning(msg, about) == [msg |-> msg, about |-> about]

\* the first loop: the largest n_sample of the requested channels that are there,
\* and a warning for every one that is not
RECURSIVE ScanChans(_, _, _)
ScanChans(ch, chans, n_sample) ==
    IF chans = <<>> THEN [n_sample |-> n_sample, warns |-> <<>>]
    ELSE LET c == Head(chans) IN
         IF c \in DOMAIN ch
         THEN ScanChans(ch, Tail(chans), IF ch[c].n_sample > n_sample THEN ch[c].n_sample ELSE n_sample)
         ELSE LET rest == ScanChans(ch, Tail(chans), n_sample)
              IN  [rest EXCEPT !.warns = <<Warning("invalid channel", c)>> \o @]

\* sp.fromfile(file, count, dtype): the whole items left from the cursor, at most count
FromFile(f, p, count, size) ==
    LET left == IF p >= Len(f) THEN 0 ELSE (Len(f) - p) \div size
        got == Min(count, left)
    IN  [items |-> [r \in 1..got |-> UnpackSigned(SubSeq(f, p + (r - 1) * size + 1, p + r * size))],
         pos   |-> IF p + count * size <= Len(f) THEN p + count * size ELSE Max(p, Len(f))]

\* one turn of the second loop for a channel that is there: seek, then fromfile
LoadItem(header, kind) == FromFile(file, header.data_offset, header.n_sample, ItemSize(kind))

\* rval[:load_item.size, i] = load_item on a column of zeros
Column(load_item, n_sample) == load_item \o Zeros(n_sample - Len(load_item))

\* a second loop without its seek: fromfile reads from where the cursor is
RECURSIVE Collect_noseek(_, _, _, _, _)
Collect_noseek(ch, chans, kind, n_sample, acc) ==
    IF chans = <<>> THEN acc
    ELSE LET c == Head(chans) IN
         IF c \in DOMAIN ch
         THEN LET load == FromFile(file, acc.pos, ch[c].n_sample, ItemSize(kind))
              IN  Collect_noseek(ch, Tail(chans), kind, n_sample,
                                 [acc EXCEPT !.cols = Append(@, Column(load.items, n_sample)),
                                             !.pos = load.pos,
                                             !.ioops = @ \o <<[op |-> "fromfile", at |-> acc.pos,
                                                               count |-> ch[c].n_sample, got |-> Len(load.items)]>>])
         ELSE Collect_noseek(ch, Tail(chans), kind, n_sample,
                             [acc EXCEPT !.cols = Append(@, Column(Zeros(n_sample), n_sample)),
                                         !.warns = Append(@, Warning("invalid channel!", c))])

\* the second loop, from the i-th requested channel on
RECURSIVE Collect(_, _, _, _, _)
Collect(ch, chans, kind, n_sample, acc) ==
    IF chans = <<>> THEN acc
    ELSE LET c == Head(chans) IN
         IF c \in DOMAIN ch
         THEN LET load == LoadItem(ch[c], kind)
              IN  Collect(ch, Tail(chans), kind, n_sample,
                          [acc EXCEPT !.cols = Append(@, Column(load.items, n_sample)),
                                      !.pos = load.pos,
                                      !.ioops = @ \o <<[op |-> "seek", at |-> ch[c].data_offset, count |-> 0, got |-> 0, from |-> acc.pos],
                                                       [op |-> "fromfile", at |-> ch[c].data_offset,
                                                        count |-> ch[c].n_sample, got |-> Len(load.items)]>>])
         ELSE Collect(ch, Tail(chans), kind, n_sample,
                      [acc EXCEPT !.cols = Append(@, Column(Zeros(n_sample), n_sample)),
                                  !.warns = Append(@, Warning("invalid channel!", c))])

Raised(what, p) == [outcome |-> what, rval |-> NoMatrix, warns |-> <<>>, pos |-> p, ioops |-> <<>>]

\* a Load that goes on into the second loop when no sample was found
Load_noreturn(p, ch, chans, kind) ==
    LET first == ScanChans(ch, chans, 0)
        acc == Collect(ch, chans, kind, first.n_sample,
                       [cols |-> <<>>, warns |-> first.warns, pos |-> p, ioops |-> <<>>])
    IN  [outcome |-> "returned",
         rval |-> [rows |-> first.n_sample, cols |-> acc.cols],
         warns |-> acc.warns, pos |-> acc.pos, ioops |-> acc.ioops]

\* _get_channels after its checks: the two loops over chans in the dict ch of the kind
Load(p, ch, chans, kind) ==
    LET first == ScanChans(ch, chans, 0)
        n_sample == first.n_sample
    IN  IF n_sample = 0
        THEN [outcome |-> "returned",
              rval |-> [rows |-> n_sample, cols |-> [i \in 1..Len(chans) |-> <<>>]],
              warns |-> Append(first.warns, Warning("no data for chans", chans)),
              pos |-> p, ioops |-> <<>>]
        ELSE LET acc == Collect(ch, chans, kind, n_sample,
                                [cols |-> <<>>, warns |-> first.warns, pos |-> p, ioops |-> <<>>])
             IN  [outcome |-> "returned",
                  rval |-> [rows |-> n_sample, cols |-> acc.cols],
                  warns |-> acc.warns, pos |-> acc.pos, ioops |-> acc.ioops]

\* a _get_channels that takes an empty chans for a request like any other
_get_channels_lenient(p, chans, kind) ==
    IF kind \notin Kinds THEN Raised("ValueError", p)
    ELSE Load(p, ChannelsOf(kind), chans, kind)

\* a _get_channels that lets the KeyError of a channel that is not there escape
_get_channels_strict(p, chans, kind) ==
    IF kind \notin Kinds THEN Raised("ValueError", p)
    ELSE IF chans = <<>> THEN Raised("ValueError", p)
    ELSE IF \E i \in 1..Len(chans) : chans[i] \notin DOMAIN ChannelsOf(kind) THEN Raised("KeyError", p)
    ELSE Load(p, ChannelsOf(kind), chans, kind)

\* XpdIO._get_channels(chans, kind) called with the cursor at p
_get_channels(p, chans, kind) ==
    IF kind \notin Kinds THEN Raised("ValueError", p)
    ELSE IF chans = <<>> THEN Raised("ValueError", p)
    ELSE Load(p, ChannelsOf(kind), chans, kind)

\* a load that takes the headers it has loaded out of the dict (ch.pop(c) for ch[c])
GetChannels_pop ==
    /\ pc = "done"
    /\ call = NoCall
    /\ \E load \in Loads :
        LET chans == load[1]
            kind == load[2]
            r == _get_channels(pos, chans, kind)
            Rest(d) == [c \in DOMAIN d \ {chans[i] : i \in 1..Len(chans)} |-> d[c]]
        IN
        /\ call' = [name |-> "_get_channels", chans |-> chans, kind |-> kind]
        /\ outcome' = r.outcome
        /\ rval' = r.rval
        /\ warns' = r.warns
        /\ pos' = r.pos
        /\ ioops' = r.ioops
        /\ _ch_analog' = IF kind = "a" THEN Rest(_ch_analog) ELSE _ch_analog
        /\ _ch_digital' = IF kind = "d" THEN Rest(_ch_digital) ELSE _ch_digital
        /\ _ch_event' = IF kind = "e" THEN Rest(_ch_event) ELSE _ch_event
    /\ blk' = <<>>
    /\ UNCHANGED <<race, layout, file, _file, pc, sec, n_left, _header, exc, exposed, iolog>>

\* a caller of the session loads channels (one call at a time: the session is
\* used from one thread, and the result of a call is dropped before the next)
GetChannels ==
    /\ pc = "done"
    /\ call = NoCall
    /\ \E load \in Loads :
        LET chans == load[1]
            kind == load[2]
            r == _get_channels(pos, chans, kind)
        IN
        /\ call' = [name |-> "_get_channels", chans |-> chans, kind |-> kind]
        /\ outcome' = r.outcome
        /\ rval' = r.rval
        /\ warns' = r.warns
        /\ pos' = r.pos
        /\ ioops' = r.ioops
    /\ blk' = <<>>
    /\ UNCHANGED <<race, layout, file, _file, pc, sec, n_left, index, exc, exposed, iolog>>

-----------------------------------------------------------------------------
(* XpdIO.read_block *)

\* the tetrodes taken from all four channels of a tetrode: t is one when any of them is a key
_available_tetrodes_any == {t \in 1..16 : \E i \in 0..3 : t + 16 * i \in DOMAIN _ch_analog}

\* the tetrodes taken from the keys with a bound that leaves out 16
_available_tetrodes_open == {k \in DOMAIN _ch_analog : 1 <= k /\ k < 16}

\* the keys of the analog dict that name a tetrode
_available_tetrodes == {k \in DOMAIN _ch_analog : 1 <= k /\ k <= 16}

\* the orders in which a dict may list a set of keys
Orders(S) == {o \in [1..Cardinality(S) -> S] : \A i, j \in DOMAIN o : o[i] = o[j] => i = j}

\* tet_cs = [t + i * 16 for i in xrange(4)]
tet_cs(t) == [i \in 1..4 |-> t + (i - 1) * 16]

\* the for loop over tet_cs: the sample rate of the first channel that is there;
\* sr stays None (is_none) when the loop finds no channel
RECURSIVE FirstSampleRate(_)
FirstSampleRate(cs) ==
    IF cs = <<>> THEN [is_none |-> TRUE, value |-> 0]
    ELSE IF Head(cs) \in DOMAIN _ch_analog
         THEN [is_none |-> FALSE, value |-> _ch_analog[Head(cs)].sample_rate]
         ELSE FirstSampleRate(Tail(cs))

\* "not sr" of Python: None and 0.0 are both false
NotSr(sr) == sr.is_none \/ sr.value = 0

\* the body of the loop over the tetrodes, for the tetrodes ts in turn
RECURSIVE Tetrodes(_, _)
Tetrodes(ts, acc) ==
    IF ts = <<>> \/ acc.outcome # "returned" THEN acc
    ELSE LET t == Head(ts)
             sr == FirstSampleRate(tet_cs(t))
             r == _get_channels(acc.pos, tet_cs(t), "a")
             w == IF NotSr(sr) THEN <<Warning("no sample rate found", t)>> ELSE <<>>
         IN  Tetrodes(Tail(ts),
                      [outcome |-> r.outcome,
                       blk |-> IF r.outcome = "returned"
                               THEN Append(acc.blk, [name |-> t,
                                                     sampling_rate |-> IF NotSr(sr) THEN DefaultRate ELSE sr.value,
                                                     signal |-> r.rval,
                                                     units |-> "uV"])
                               ELSE acc.blk,
                       warns |-> acc.warns \o w \o r.warns,
                       pos |-> r.pos,
                       ioops |-> acc.ioops \o r.ioops])

read_block(p, order) == Tetrodes(order, [outcome |-> "returned", blk |-> <<>>, warns |-> <<>>, pos |-> p, ioops |-> <<>>])

\* a caller of the session reads the block (read is read_block)
ReadBlock ==
    /\ pc = "done"
    /\ call = NoCall
    /\ \E order \in Orders(_available_tetrodes) :
        LET r == read_block(pos, order) IN
        /\ call' = [name |-> "read_block"]
        /\ outcome' = r.outcome
        /\ blk' = r.blk
        /\ warns' = r.warns
        /\ pos' = r.pos
        /\ ioops' = r.ioops
    /\ rval' = NoMatrix
    /\ UNCHANGED <<race, layout, file, _file, pc, sec, n_left, index, exc, exposed, iolog>>

\* the caller is done with what the last call returned or raised
Discard ==
    /\ call # NoCall
    /\ call' = NoCall
    /\ outcome' = "none"
    /\ rval' = NoMatrix
    /\ blk' = <<>>
    /\ warns' = <<>>
    /\ ioops' = <<>>
    /\ UNCHANGED <<race, layout, file, _file, pos, pc, sec, n_left, index, exc, exposed, iolog>>

-----------------------------------------------------------------------------
(* XpdIO.__del__ *)

Deleted == [deleted |-> TRUE]

\* the session, or what a failed constructor left of it, is collected
Del ==
    /\ pc \in {"done", "raised"}
    /\ call = NoCall
    /\ pc' = "deleted"
    /\ _file' = _close(_file)
    /\ _ch_analog' = Deleted
    /\ _ch_digital' = Deleted
    /\ _ch_event' = Deleted
    /\ exposed' = FALSE
    /\ UNCHANGED <<race, layout, file, pos, sec, n_left, _header, exc, iolog, calls>>

Next == _open \/ GetChannels \/ ReadBlock \/ Discard \/ Del


Spec == Init /\ [][Next]_vars

-----------------------------------------------------------------------------
(* Two calls of _get_channels at the same time.  Each thread runs the code *)
(* of _get_channels with its own locals on the one handle of the session;  *)
(* a seek and a read of the handle are one step each, and the steps of the *)
(* two threads come in any order.                                          *)

\* the files the threads load from: two analog channels, and a channel in every section
RaceLayouts ==
    {Layout(PlainTrial, <<[no |-> 1, rate |-> 30, n |-> MaxSample], [no |-> 17, rate |-> 0, n |-> 1]>>, <<>>, <<>>),
     Layout(PlainTrial, <<[no |-> 1, rate |-> 30, n |-> 2]>>, <<[no |-> 1, rate |-> 30, n |-> 1]>>,
            <<[no |-> 17, rate |-> 30, n |-> 2]>>)}

\* the calls the threads make
RaceLoads ==
    {<< <<1>>, "a" >>, << <<17>>, "a" >>, << <<1, 17>>, "a" >>, << <<99, 1>>, "a" >>,
     << <<99>>, "a" >>, << <<>>, "a" >>, << <<1>>, "d" >>, << <<17>>, "e" >>}

InitRace == layout \in RaceLayouts /\ Init

\* the locals of a thread that has entered _get_channels
Entered(chans, kind, at, n_sample, cols, w) ==
    [at |-> at, chans |-> chans, kind |-> kind, n_sample |-> n_sample, i |-> 1,
     cols |-> cols, warns |-> w, read_at |-> <<>>, raced |-> FALSE]

\* the end of a turn of the second loop that has put a column into rval
Turned(th, col, w) ==
    [th EXCEPT !.cols = Append(@, col),
               !.warns = @ \o w,
               !.i = @ + 1,
               !.at = IF th.i = Len(th.chans) THEN "returned" ELSE "loop"]

\* the checks and the first loop: they read the index only
Enter(t) ==
    /\ pc = "done"
    /\ threads[t] = Idle
    /\ \E load \in RaceLoads :
        LET chans == load[1]
            kind == load[2]
        IN  IF kind \notin Kinds \/ chans = <<>>
            THEN threads' = [threads EXCEPT ![t] = Entered(chans, kind, "ValueError", 0, <<>>, <<>>)]
            ELSE LET first == ScanChans(ChannelsOf(kind), chans, 0) IN
                 IF first.n_sample = 0
                 THEN threads' = [threads EXCEPT ![t] =
                                    Entered(chans, kind, "returned", 0, [i \in 1..Len(chans) |-> <<>>],
                                            Append(first.warns, Warning("no data for chans", chans)))]
                 ELSE threads' = [threads EXCEPT ![t] =
                                    Entered(chans, kind, "loop", first.n_sample, <<>>, first.warns)]
    /\ UNCHANGED <<cursor_by, layout, file, _file, pos, pc, sec, n_left, index, exc, exposed, iolog, calls>>

\* a thread whose seek leaves the cursor where it is
Seek_nowhere(t) ==
    LET th == threads[t] IN
    /\ th.at = "loop"
    /\ th.chans[th.i] \in DOMAIN ChannelsOf(th.kind)
    /\ pos' = pos
    /\ cursor_by' = t
    /\ threads' = [threads EXCEPT ![t].at = "fromfile"]
    /\ UNCHANGED <<layout, file, _file, pc, sec, n_left, index, exc, exposed, iolog, calls>>

\* header = ch[c]; self._file.seek(header.data_offset)
Seek(t) ==
    LET th == threads[t] IN
    /\ th.at = "loop"
    /\ th.chans[th.i] \in DOMAIN ChannelsOf(th.kind)
    /\ pos' = ChannelsOf(th.kind)[th.chans[th.i]].data_offset
    /\ cursor_by' = t
    /\ threads' = [threads EXCEPT ![t].at = "fromfile"]
    /\ UNCHANGED <<layout, file, _file, pc, sec, n_left, index, exc, exposed, iolog, calls>>

\* load_item = sp.fromfile(file=self._file, count=header.n_sample, dtype=dtype), from
\* where the cursor is now, and rval[:load_item.size, i] = load_item
Fromfile(t) ==
    LET th == threads[t]
        header == ChannelsOf(th.kind)[th.chans[th.i]]
        load == FromFile(file, pos, header.n_sample, ItemSize(th.kind))
    IN
    /\ th.at = "fromfile"
    /\ pos' = load.pos
    /\ cursor_by' = t
    /\ threads' = [threads EXCEPT ![t] =
                     [Turned(th, Column(load.items, th.n_sample), <<>>)
                        EXCEPT !.read_at = Append(@, pos), !.raced = @ \/ cursor_by # t]]
    /\ UNCHANGED <<layout, file, _file, pc, sec, n_left, index, exc, exposed, iolog, calls>>

\* except KeyError: a warning and a column of zeros, the handle is not touched
Missing(t) ==
    LET th == threads[t] IN
    /\ th.at = "loop"
    /\ th.chans[th.i] \notin DOMAIN ChannelsOf(th.kind)
    /\ threads' = [threads EXCEPT ![t] =
                     Turned(th, Column(Zeros(th.n_sample), th.n_sample),
                            <<Warning("invalid channel!", th.chans[th.i])>>)]
    /\ UNCHANGED <<cursor_by, layout, file, _file, pos, pc, sec, n_left, index, exc, exposed, iolog, calls>>

NextRace == _open \/ \E t \in Threads : Enter(t) \/ Seek(t) \/ Fromfile(t) \/ Missing(t)

SpecRace == InitRace /\ [][NextRace]_vars

-----------------------------------------------------------------------------
(* What the log of _open says about the announce codes *)

ExpectedCodes == <<120, 123, 121, 122>>
SectionIndex == [t |-> 1, a |-> 2, d |-> 3, e |-> 4]

IsAnnounce(e) == e.what = "announce"
AnnounceReads == SelectSeq(iolog, IsAnnounce)
AnnouncesBefore(i) == Len(SelectSeq(SubSeq(iolog, 1, i - 1), IsAnnounce))

\* the k-th announce code was read whole and is not the expected one
Mismatch(k) ==
    /\ k <= Len(AnnounceReads)
    /\ AnnounceReads[k].size = 2
    /\ AnnounceReads[k].val # ExpectedCodes[k]

\* the first k announce codes were read and are the expected ones
MatchedUpTo(k) ==
    /\ k <= Len(AnnounceReads)
    /\ \A j \in 1..k : AnnounceReads[j].size = 2 /\ AnnounceReads[j].val = ExpectedCodes[j]

-----------------------------------------------------------------------------
(* C1: when one of the four announce codes read by _open is not the        *)
(* expected one (120, 123, 121, 122), the constructor has ended with an    *)
(* IOError, the file handle is closed, and no session is handed to the     *)
(* caller, so no call is ever made on the partly built index.              *)
C1_MismatchIsFatal ==
    \A k \in 1..4 :
        Mismatch(k) =>
            /\ pc \in {"raised", "deleted"}
            /\ exc = "IOError"
            /\ _file = "closed"
            /\ ~exposed
            /\ call = NoCall
            /\ iolog[Len(iolog)] = AnnounceReads[k]

\* the event code is wrong after the analog and digital sections were indexed
C1_Witness ==
    /\ Mismatch(4)
    /\ pc = "raised"
    /\ DOMAIN _ch_analog # {}
    /\ DOMAIN _ch_digital # {}

(* C2: whenever the constructor has ended with an error of any kind, a     *)
(* short read included, the file handle is closed.                         *)
C2_ReleasedOnAnyError == pc = "raised" => _file = "closed"

(* C3: _open walks trial, analog, digital, event in this order: every read *)
(* comes after the announce codes of its own and of all earlier sections   *)
(* were read and matched, nothing is read after a code that does not       *)
(* match, a first code of 121 ends the constructor before anything else is *)
(* read, and the constructor succeeds only after 120, 123, 121, 122.       *)
C3_SectionOrder ==
    /\ \A i \in 1..Len(iolog) :
        LET e == iolog[i]
            k == AnnouncesBefore(i)
        IN  /\ MatchedUpTo(k)
            /\ IF IsAnnounce(e) THEN SectionIndex[e.sec] = k + 1 ELSE SectionIndex[e.sec] = k
            /\ e.what = "trial_header" => k = 1
    /\ pc # "deleted" =>
        /\ _header # None => MatchedUpTo(1)
        /\ DOMAIN _ch_analog # {} => MatchedUpTo(2)
        /\ DOMAIN _ch_digital # {} => MatchedUpTo(3)
        /\ DOMAIN _ch_event # {} => MatchedUpTo(4)
    /\ (Mismatch(1) /\ AnnounceReads[1].val = 121) =>
        /\ Len(iolog) = 1
        /\ pc \in {"raised", "deleted"}
        /\ _header = None
    /\ pc = "done" => Len(AnnounceReads) = 4 /\ MatchedUpTo(4)

\* the file starts with 121 and the constructor has raised
C3_Witness ==
    /\ pc = "raised"
    /\ Len(iolog) = 1
    /\ iolog[1].what = "announce"
    /\ iolog[1].val = 121
    /\ iolog[1].size = 2

-----------------------------------------------------------------------------
(* What the layout says was stored for a channel *)

LayoutSection(kind) ==
    CASE kind = "a" -> layout.a
      [] kind = "d" -> layout.d
      [] kind = "e" -> layout.e

MaxOf(S) == IF S = {} THEN 0 ELSE CHOOSE x \in S : \A y \in S : y <= x
MinOf(S) == CHOOSE x \in S : \A y \in S : x <= y

\* the place in its section of the last channel written with number c, 0 if there is none
Written(kind, c) == MaxOf({i \in 1..Len(LayoutSection(kind)) : LayoutSection(kind)[i].no = c})

\* the number of the item of FileItems that holds the samples of the i-th channel of a kind
PayloadItem(kind, i) ==
    CASE kind = "a" -> 4 + 2 * i
      [] kind = "d" -> 6 + 2 * Len(layout.a) + 2 * i
      [] kind = "e" -> 8 + 2 * Len(layout.a) + 2 * Len(layout.d) + 2 * i

\* the offset of these samples in the file
PayloadStart(kind, i) == layout.starts[PayloadItem(kind, i)]

\* how many whole samples of the i-th channel of a kind are on disk
OnDisk(kind, i) ==
    LET room == (Len(file) - PayloadStart(kind, i)) \div ItemSize(kind)
    IN  Max(0, Min(LayoutSection(kind)[i].n, room))

\* the request of the last call: its channels that are written in the file, and the rest
IsLoad == call.name = "_get_channels" /\ call.kind \in Kinds
KnownAt == {i \in 1..Len(call.chans) : Written(call.kind, call.chans[i]) # 0}
UnknownAt == {i \in 1..Len(call.chans) : Written(call.kind, call.chans[i]) = 0}
SamplesOf(i) == LayoutSection(call.kind)[Written(call.kind, call.chans[i])].n

(* C4: for a non-empty request of any kind, _get_channels returns a matrix *)
(* with as many rows as the largest n_sample of the requested channels     *)
(* that are known and one column per requested channel; the column of a    *)
(* known channel holds its n_sample stored samples and then only zeros.    *)
C4_PaddedMatrix ==
    (IsLoad /\ call.chans # <<>>) =>
        /\ outcome = "returned"
        /\ rval.rows = MaxOf({SamplesOf(i) : i \in KnownAt})
        /\ Len(rval.cols) = Len(call.chans)
        /\ \A i \in 1..Len(call.chans) : Len(rval.cols[i]) = rval.rows
        /\ \A i \in KnownAt :
            LET j == Written(call.kind, call.chans[i]) IN
            /\ OnDisk(call.kind, j) = SamplesOf(i)
            /\ \A r \in 1..SamplesOf(i) : rval.cols[i][r] = StoredSample(call.kind, j, r)
            /\ \A r \in (SamplesOf(i) + 1)..rval.rows : rval.cols[i][r] = 0

C6_UnknownChannels ==
    (IsLoad /\ UnknownAt # {} /\ \E i \in KnownAt : SamplesOf(i) > 0) =>
        /\ outcome = "returned"
        /\ Len(rval.cols) = Len(call.chans)
        /\ \A i \in UnknownAt :
            /\ rval.cols[i] = Zeros(rval.rows)
            /\ \E w \in 1..Len(warns) :
                warns[w].about = call.chans[i] /\ warns[w].msg \in {"invalid channel", "invalid channel!"}
        /\ \A i \in KnownAt :
            \A r \in 1..OnDisk(call.kind, Written(call.kind, call.chans[i])) :
                rval.cols[i][r] = StoredSample(call.kind, Written(call.kind, call.chans[i]), r)
        /\ LET IsKnown(c) == Written(call.kind, c) # 0
               IsKnownCol(i) == i \in KnownAt
               alone == _get_channels(0, SelectSeq(call.chans, IsKnown), call.kind)
           IN  /\ alone.outcome = "returned"
               /\ alone.rval.rows = rval.rows
               /\ alone.rval.cols = [k \in 1..Cardinality(KnownAt) |->
                                        rval.cols[CHOOSE i \in KnownAt :
                                                    Cardinality({j \in KnownAt : j <= i}) = k]]

\* channels [1, 99] of which 1 has samples and 99 is unknown were loaded
C6_Witness ==
    /\ IsLoad
    /\ call.chans = <<1, 99>>
    /\ KnownAt = {1}
    /\ SamplesOf(1) > 0
    /\ outcome = "returned"

(* C7: when none of the channels of a non-empty request is in the map of   *)
(* the kind, _get_channels raises nothing and returns a matrix of zero     *)
(* rows and one column per requested channel, it warns about each channel  *)
(* and about the request having no data, and it does no seek and no read.  *)
C7_NoneKnown ==
    (IsLoad /\ call.chans # <<>> /\ KnownAt = {}) =>
        /\ outcome = "returned"
        /\ rval.rows = 0
        /\ Len(rval.cols) = Len(call.chans)
        /\ \A i \in 1..Len(call.chans) : rval.cols[i] = <<>>
        /\ Len(warns) = Len(call.chans) + 1
        /\ \A i \in 1..Len(call.chans) : warns[i] = Warning("invalid channel", call.chans[i])
        /\ warns[Len(warns)] = Warning("no data for chans", call.chans)
        /\ ioops = <<>>

\* two channels were requested of a kind whose section has channels, but not these
C7_Witness ==
    /\ IsLoad
    /\ Len(call.chans) = 2
    /\ KnownAt = {}
    /\ Len(LayoutSection(call.kind)) > 0
    /\ outcome = "returned"

(* C8: every read of a load delivers the n_sample items it asks for; a     *)
(* load never returns a matrix after a read that came short.               *)
C8_NoPartialRead ==
    (IsLoad /\ outcome = "returned") =>
        \A k \in 1..Len(ioops) : ioops[k].op = "fromfile" => ioops[k].got = ioops[k].count

(* C9: the sample rate of every tetrode signal of read_block is the stored *)
(* sample_rate of the first of t, t+16, t+32, t+48 that is in the analog   *)
(* map, whatever it is; the default of 32 with its warning comes only when *)
(* none of the four is in the map.                                         *)
C9_FirstSampleRate ==
    call.name = "read_block" =>
        \A b \in 1..Len(blk) :
            LET t == blk[b].name
                there == {i \in 0..3 : t + 16 * i \in DOMAIN _ch_analog}
                warned == \E w \in 1..Len(warns) : warns[w] = Warning("no sample rate found", t)
            IN  IF there # {}
                THEN blk[b].sampling_rate = _ch_analog[t + 16 * MinOf(there)].sample_rate /\ ~warned
                ELSE blk[b].sampling_rate = 32 /\ warned

(* C10: read_block makes exactly one tetrode signal for each key of the    *)
(* analog map from 1 to 16 and none for other keys; its matrix has the     *)
(* four columns of t, t+16, t+32, t+48 in this order, as many rows as the  *)
(* longest of them, the stored samples then zeros in the column of a       *)
(* channel that is there and only zeros in the column of one that is not.  *)
(* A single channel 1 of 5 samples at 30 kHz gives one signal of rate 30   *)
(* and 5 rows, its first column the 5 samples, the other three zero.       *)
C10_OneSignalPerTetrode ==
    call.name = "read_block" =>
        /\ outcome = "returned"
        /\ Len(blk) = Cardinality(DOMAIN _ch_analog \cap 1..16)
        /\ {blk[b].name : b \in 1..Len(blk)} = DOMAIN _ch_analog \cap 1..16
        /\ \A b \in 1..Len(blk) :
            LET t == blk[b].name
                m == blk[b].signal
                no(i) == t + 16 * (i - 1)
                n(i) == IF Written("a", no(i)) = 0 THEN 0 ELSE layout.a[Written("a", no(i))].n
            IN  /\ m.rows = MaxOf({n(i) : i \in 1..4})
                /\ Len(m.cols) = 4
                /\ \A i \in 1..4 :
                    m.cols[i] = [r \in 1..m.rows |->
                                    IF r <= n(i) THEN StoredSample("a", Written("a", no(i)), r) ELSE 0]
        /\ layout \in ScenarioLayouts =>
            blk = <<[name |-> 1, sampling_rate |-> 30, units |-> "uV",
                     signal |-> [rows |-> 5,
                                 cols |-> <<<<211, -212, 213, -214, 215>>, Zeros(5), Zeros(5), Zeros(5)>>]]>>

\* the block of a file with the analog channels 1 (one sample) and 16: two signals
C10_Witness ==
    /\ call.name = "read_block"
    /\ Len(blk) = 2
    /\ \E b \in 1..2 : blk[b].name = 16
    /\ \E b \in 1..2 : blk[b].name = 1 /\ blk[b].signal.rows = 1

-----------------------------------------------------------------------------
(* What the layout says about the sections *)

\* the channel numbers written in the section of a kind
Numbers(kind) == {LayoutSection(kind)[i].no : i \in 1..Len(LayoutSection(kind))}

(* C11: the step that completes _open leaves the cursor at byte 0, the     *)
(* handle open, the trial header decoded and, in the map of each of the    *)
(* three kinds, a header for every channel number written in its section;  *)
(* from then on the handle stays open through every load and read_block,   *)
(* and only the deletion of the session closes it.                         *)
C11_OpenCompletes ==
    [][/\ (pc # "done" /\ pc' = "done") =>
            /\ pos' = 0
            /\ _file' = "open"
            /\ _header' # None
            /\ \A kind \in Kinds : DOMAIN (ChannelsOf(kind)') = Numbers(kind)
       /\ (pc = "done" /\ pc' = "done") => (_file = "open" /\ _file' = "open")
       /\ (pc = "done" /\ _file' # "open") => pc' = "deleted"]_vars

\* a file with channels in all three sections was opened and its block was read
C11_Witness ==
    /\ pc = "done"
    /\ _file = "open"
    /\ \A kind \in Kinds : DOMAIN ChannelsOf(kind) # {}
    /\ call.name = "read_block"
    /\ pos # 0

-----------------------------------------------------------------------------
(* What the log of _open says about the channel headers *)

IsHeader(e) == e.what = "channel_header"
IsRead(e) == e.what \in {"announce", "trial_header", "count", "channel_header"}

\* which channel of its section the i-th entry of the log, a channel header, is
HeaderNo(i) ==
    LET InSection(e) == IsHeader(e) /\ e.sec = iolog[i].sec
    IN  Len(SelectSeq(SubSeq(iolog, 1, i), InSection))

\* the entry of the log for the last header of a kind read with channel number c
LastHeader(kind, c) ==
    MaxOf({i \in 1..Len(iolog) : IsHeader(iolog[i]) /\ iolog[i].sec = kind /\ iolog[i].size = 24 /\ iolog[i].val = c})

(* C12: every channel header that _open decodes, of every kind, is         *)
(* followed by a seek over its samples that starts right after its 24      *)
(* bytes, where the samples of this channel were written, and is n_sample  *)
(* times 2 bytes long for analog and n_sample times 4 for digital and      *)
(* event; the next read starts exactly where this seek ends; the           *)
(* data_offset of every header in a map is the cursor after its 24 bytes;  *)
(* and no read of _open covers a byte of any channel's samples.            *)
C12_PayloadsSkipped ==
    /\ \A i \in 1..Len(iolog) :
        LET e == iolog[i] IN
        /\ (IsHeader(e) /\ e.size = 24) =>
            /\ i < Len(iolog)
            /\ iolog[i + 1].what = "skip"
            /\ iolog[i + 1].at = e.at + 24
            /\ iolog[i + 1].at = PayloadStart(e.sec, HeaderNo(i))
            /\ iolog[i + 1].size = LayoutSection(e.sec)[HeaderNo(i)].n * (IF e.sec = "a" THEN 2 ELSE 4)
        /\ (i < Len(iolog) /\ iolog[i + 1].what # "rewind") => iolog[i + 1].at = e.at + e.size
        /\ IsRead(e) =>
            \A k \in 1..Len(iolog) :
                iolog[k].what = "skip" => (e.at + e.size <= iolog[k].at \/ iolog[k].at + iolog[k].size <= e.at)
    /\ (pc \in {"announce", "trial_header", "count", "channel_header", "rewind"} /\ iolog # <<>>) =>
        pos = iolog[Len(iolog)].at + iolog[Len(iolog)].size
    /\ pc \in {"announce", "trial_header", "count", "channel_header", "rewind", "done", "raised"} =>
        \A kind \in Kinds : \A c \in DOMAIN ChannelsOf(kind) :
            /\ LastHeader(kind, c) # 0
            /\ ChannelsOf(kind)[c].data_offset = iolog[LastHeader(kind, c)].at + 24

\* a file with samples in all three sections was indexed to its end
C12_Witness ==
    /\ pc = "rewind"
    /\ \A kind \in Kinds : Len(LayoutSection(kind)) = 1 /\ LayoutSection(kind)[1].n > 0
    /\ Len(SelectSeq(iolog, IsHeader)) = 3
    /\ pos = Len(file)

-----------------------------------------------------------------------------
(* What the layout says a load returns *)

\* the rows of the matrix of a request: the longest of its channels that are written
ExpectedRows(kind, chans) ==
    MaxOf({LayoutSection(kind)[Written(kind, chans[i])].n :
             i \in {k \in 1..Len(chans) : Written(kind, chans[k]) # 0}})

\* the column of channel c in a matrix of so many rows: its samples, then zeros
ExpectedColumn(kind, c, rows) ==
    [r \in 1..rows |->
        IF Written(kind, c) # 0 /\ r <= LayoutSection(kind)[Written(kind, c)].n
        THEN StoredSample(kind, Written(kind, c), r)
        ELSE 0]

\* the matrix a thread has returned is the one its request stands for
Correct(th) ==
    /\ Len(th.cols) = Len(th.chans)
    /\ \A i \in 1..Len(th.chans) :
        th.cols[i] = ExpectedColumn(th.kind, th.chans[i], ExpectedRows(th.kind, th.chans))

(* C13: with two loads taking their seek and read steps in any order, a    *)
(* load none of whose reads had a step of the other load between its seek  *)
(* and itself returns the matrix of its request (the stored samples of     *)
(* each known channel, zero padded), the same as the load made alone; so   *)
(* two serialized loads are both correct.  A read that had a step of the   *)
(* other load on the handle between its seek and itself starts from the    *)
(* other load's offset: the state of C13_Witness, a load that has returned *)
(* a column that is not its channel's samples, is reachable.               *)
C13_SerializedLoadsCorrect ==
    \A t \in Threads :
        LET th == threads[t] IN
        (th.at = "returned" /\ ~th.raced) =>
            /\ Correct(th)
            /\ th.cols = _get_channels(0, th.chans, th.kind).rval.cols
            /\ \A k \in 1..Len(th.read_at) :
                \E c \in DOMAIN ChannelsOf(th.kind) : th.read_at[k] = ChannelsOf(th.kind)[c].data_offset

\* both loads have returned: one had its seek and read kept together and is correct,
\* the other read from where the first had left the cursor and returned a wrong column
C13_Witness ==
    \E t, u \in Threads :
        /\ t # u
        /\ threads[t].at = "returned" /\ threads[u].at = "returned"
        /\ ~threads[u].raced /\ threads[u].read_at # <<>> /\ Correct(threads[u])
        /\ threads[t].raced
        /\ ~Correct(threads[t])
        /\ \E k \in 1..Len(threads[t].read_at) :
            threads[t].read_at[k] \notin
                {ChannelsOf(threads[t].kind)[c].data_offset : c \in DOMAIN ChannelsOf(threads[t].kind)}

(* C14: once _open has completed, no call of _get_channels, of read or of  *)
(* read_block (which asks _available_tetrodes) changes the analog, the     *)
(* digital or the event map, a header in them, or the trial header; the    *)
(* file and the handle stay as they are too: of the session only the       *)
(* cursor moves.                                                           *)
C14_IndexImmutable ==
    [][(pc = "done" /\ pc' = "done") =>
          /\ _header' = _header
          /\ _ch_analog' = _ch_analog
          /\ _ch_digital' = _ch_digital
          /\ _ch_event' = _ch_event
          /\ file' = file
          /\ _file' = _file]_vars

\* a load of two analog channels has moved the cursor of a session with two headers
C14_Witness ==
    /\ pc = "done"
    /\ call.name = "_get_channels"
    /\ Len(call.chans) = 2
    /\ Len(ioops) = 4
    /\ pos # 0
    /\ Cardinality(DOMAIN _ch_analog) = 2

\* all of the file is on disk and its announce codes are the right ones
Intact == layout.ann = GoodAnnounce /\ layout.keep = layout.size

(* C15: _open does not fail on an intact file, whether or not channel      *)
(* numbers repeat in a section; when it has walked the file, the map of    *)
(* each kind has exactly the channel numbers written in the section of     *)
(* this kind as its keys, and the header under a number is the one of the  *)
(* last channel written with it in this section: its n_sample, its sample  *)
(* rate, and the offset of its own samples as data_offset.                 *)
C15_LastWriteWins ==
    /\ Intact => pc # "raised"
    /\ pc \in {"rewind", "done"} =>
        \A kind \in Kinds :
            /\ DOMAIN ChannelsOf(kind) = Numbers(kind)
            /\ \A c \in Numbers(kind) :
                LET j == Written(kind, c)
                    h == ChannelsOf(kind)[c]
                IN  /\ h.channel_no = c
                    /\ h.n_sample = LayoutSection(kind)[j].n
                    /\ h.sample_rate = LayoutSection(kind)[j].rate
                    /\ h.data_offset = PayloadStart(kind, j)

\* a file with two analog channels of one number and different lengths was opened
C15_Witness ==
    /\ pc = "done"
    /\ Len(layout.a) = 2
    /\ layout.a[1].no = layout.a[2].no
    /\ layout.a[1].n # layout.a[2].n
    /\ Cardinality(DOMAIN _ch_analog) = 1

-----------------------------------------------------------------------------
(* What the layout says about the comments *)

\* the bytes of a field before its first NUL byte, all of them if it has none
BeforeNul(f) ==
    IF \E i \in 1..Len(f) : f[i] = 0
    THEN SubSeq(f, 1, MinOf({i \in 1..Len(f) : f[i] = 0}) - 1)
    ELSE f

(* C16: the comment and the additional comment of the decoded trial header *)
(* are the bytes of their 255 byte field before its first NUL byte, empty  *)
(* when the field starts with NUL, and all 255 bytes of a field that has   *)
(* no NUL byte.                                                            *)
C16_CommentsDecoded ==
    _header # None =>
        /\ _header.comment = BeforeNul(layout.trial.comment)
        /\ _header.add_comment = BeforeNul(layout.trial.add_comment)

\* the same for the fields that do have a NUL byte
C16_TerminatedComments ==
    _header # None =>
        /\ (\E i \in 1..255 : layout.trial.comment[i] = 0) =>
            _header.comment = BeforeNul(layout.trial.comment)
        /\ (\E i \in 1..255 : layout.trial.add_comment[i] = 0) =>
            _header.add_comment = BeforeNul(layout.trial.add_comment)

-----------------------------------------------------------------------------
(* Where earlier calls may have left the cursor *)

\* the loads of one channel
SingleLoads == {<< <<c>>, kind >> : c \in ReqNos, kind \in Kinds}

\* the cursor after an earlier load or read_block, with the start and the end of the file
CursorsLeft ==
    {0, pos, Len(file)}
      \cup {_get_channels(0, load[1], load[2]).pos : load \in SingleLoads}
      \cup {read_block(0, order).pos : order \in Orders(_available_tetrodes)}

(* C17: the matrix and the warnings a load has returned are those the same *)
(* request gives with the cursor at the start of the file, where the load  *)
(* itself has left it (the request repeated), at the end of the file, or   *)
(* where any other load or read_block leaves it; and any other load made   *)
(* after this one returns what it returns when made first.                 *)
C17_CursorIndependent ==
    (IsLoad /\ outcome = "returned") =>
        /\ \A p \in CursorsLeft :
            LET again == _get_channels(p, call.chans, call.kind)
            IN  again.outcome = "returned" /\ again.rval = rval /\ again.warns = warns
        /\ \A load \in SingleLoads :
            _get_channels(pos, load[1], load[2]).rval = _get_channels(0, load[1], load[2]).rval

\* a load with the cursor left behind the samples it asks for has returned them
C17_Witness ==
    /\ IsLoad
    /\ outcome = "returned"
    /\ ioops # <<>>
    /\ ioops[1].from > ioops[1].at
    /\ KnownAt # {}
    /\ C8_NoPartialRead

(* C18: when _open has completed, the samples of every header in every map *)
(* lie within the file: data_offset + n_sample * 2 for an analog header,   *)
(* data_offset + n_sample * 4 for a digital or event header, is at most    *)
(* the length of the file.                                                 *)
C18_PayloadsWithinFile ==
    pc = "done" =>
        \A kind \in Kinds : \A c \in DOMAIN ChannelsOf(kind) :
            ChannelsOf(kind)[c].data_offset + ChannelsOf(kind)[c].n_sample * (IF kind = "a" THEN 2 ELSE 4)
                <= Len(file)

(* C19: every tetrode for which read_block has made a signal is a key of   *)
(* the analog map: the first of its four channels t, t+16, t+32, t+48 is   *)
(* there, the search for the sample rate ends at this channel, and no      *)
(* signal is made for four channels that are all missing.                  *)
C19_TetrodeIsKey ==
    call.name = "read_block" =>
        \A b \in 1..Len(blk) :
            LET t == blk[b].name IN
            /\ t \in DOMAIN _ch_analog
            /\ tet_cs(t)[1] = t
            /\ \E i \in 1..4 : tet_cs(t)[i] \in DOMAIN _ch_analog
            /\ FirstSampleRate(tet_cs(t)) = [is_none |-> FALSE, value |-> _ch_analog[t].sample_rate]
            /\ Len(blk[b].signal.cols) = 4

\* the block of a file with the analog channels 16 and 17: one signal, for 16
C19_Witness ==
    /\ call.name = "read_block"
    /\ DOMAIN _ch_analog = {16, 17}
    /\ Len(blk) = 1
    /\ blk[1].name = 16
=============================================================================
